---- MODULE Spec2Model ----
(***************************************************************************)
(* Model of the kitchen-sync job scheduling and execution engine:          *)
(*   - the cadence scheduler (lib/sync-job-scheduler: enqueueDueSyncJobs), *)
(*   - the run claimer / executor loop (lib/calendarsync/job-runner.ts),   *)
(*   - the process runner and the secret bundler (executor.ts,             *)
(*     auth-storage),                                                      *)
(*   - the run log store (run-logs).                                       *)
(* The database is PostgreSQL; a transaction is modelled by its reads      *)
(* (a step), and its writes together with its commit (a later step).       *)
(***************************************************************************)
EXTENDS Integers, Sequences, FiniteSets, TLC

VARIABLES
    now,        \* wall clock, in units of 15 minutes
    jobs,       \* SyncJob rows: [status, cadence, nextRunAt, lastRunAt]
    runs,       \* JobRun rows in creation order (the run id is the index)
    sched,      \* per scheduler pass: position in enqueueDueSyncJobs
    exec,       \* per executor: position in processPendingJobRuns
    restarted,  \* history: the process has been restarted
    rc,         \* the runCalendarSync call: position, options, child, result
    disk,       \* scratch files and directories: path -> content
    age,        \* the createAuthStorageFile call: position, input, result
    er,         \* executeRun's preparation of the run's scratch directory
    authStorage, \* Account.calendarSyncAuthStorage (the stored secret bundle)
    logFiles,   \* the files written by writeRunLog: absolute path -> content
    logOp,      \* the last call into the run log store and how it ended
    tz,         \* the local time zone of the process
    calc,       \* the last call of calculateNextRunAt: arguments and result
    xr,         \* executeRun on a claimed run: position and locals
    st,         \* the scheduler instance of the process: task, flag, passes
    cb          \* the last call of buildCliConfig: arguments and result

dbVars == <<now, jobs, runs, sched, exec, restarted>>
miscVars == <<tz, calc, xr, st, cb>>
ioVars == <<rc, disk, age, er, authStorage, logFiles, logOp, miscVars>>

----------------------------------------------------------------------------
(* Bounds of the model *)

MaxTime == 1
MaxRuns == 2
MaxChunks == 1
MaxAccounts == 2
MaxLen == 3
MaxNow == 8
MaxCalls == 2
MaxTicks == 3
MaxItems == 2

----------------------------------------------------------------------------
(* Constants of the program *)

Null == -1

\* The jobs, the scheduler passes and the executor loops that may run
\* concurrently are the domains of jobs, sched and exec, fixed by the
\* initial state.
Jobs == DOMAIN jobs
Scheds == DOMAIN sched
Execs == DOMAIN exec

ACTIVE == "ACTIVE"
PAUSED == "PAUSED"

PENDING == "PENDING"
RUNNING == "RUNNING"
SUCCESS == "SUCCESS"
FAILED == "FAILED"
CANCELLED == "CANCELLED"
JobRunStatus == {PENDING, RUNNING, SUCCESS, FAILED, CANCELLED}
Terminal == {SUCCESS, FAILED, CANCELLED}

FIFTEEN_MINUTES == "FIFTEEN_MINUTES"
HOURLY == "HOURLY"
DAILY == "DAILY"
SyncJobCadence == {FIFTEEN_MINUTES, HOURLY, DAILY}

\* The time zones a process may run in: local time is UTC plus `before`
\* until the instant `at` and UTC plus `after` from then on.  Offsets and
\* instants are in clock units of 15 minutes.
UTCZone == [at |-> 0, before |-> 0, after |-> 0]
\* daylight saving time ends at instant 6: clocks go back one hour
FallBackZone == [at |-> 6, before |-> 4, after |-> 0]
\* daylight saving time begins at instant 6: clocks go forward one hour
SpringForwardZone == [at |-> 6, before |-> 0, after |-> 4]
Zones == {UTCZone, FallBackZone, SpringForwardZone}

\* Date's LocalTime(t): the local time of the instant t
LocalTime(t) == t + (IF t < tz.at THEN tz.before ELSE tz.after)

\* Date's UTC(t): the instant of a local time; a local time that occurs
\* twice or not at all is read with the offset before the transition.
UTC(local) ==
    IF local - tz.before < tz.at THEN local - tz.before
    ELSE IF local - tz.after >= tz.at THEN local - tz.after
    ELSE local - tz.before

\* Length of a cadence interval in clock units (15 minutes each).
IntervalOf(cadence) ==
    CASE cadence = FIFTEEN_MINUTES -> 1
      [] cadence = HOURLY -> 4
      [] cadence = DAILY -> 96

\* setMinutes(getMinutes() + 15), setHours(getHours() + 1) and
\* setDate(getDate() + 1) add to the fields of the local time.
addCadenceInterval(base, cadence) == UTC(LocalTime(base) + IntervalOf(cadence))

RECURSIVE CatchUp(_, _, _)
CatchUp(candidate, cadence, at) ==
    IF candidate <= at
    THEN CatchUp(addCadenceInterval(candidate, cadence), cadence, at)
    ELSE candidate

calculateNextRunAt_NoCatchUp(cadence, previousNextRunAt, at) ==
    addCadenceInterval(IF previousNextRunAt = Null THEN at ELSE previousNextRunAt,
                       cadence)

calculateNextRunAt(cadence, previousNextRunAt, at) ==
    LET base == IF previousNextRunAt = Null THEN at ELSE previousNextRunAt
    IN  CatchUp(addCadenceInterval(base, cadence), cadence, at)

----------------------------------------------------------------------------
(* Rows and process records *)

\* basis, wasDue, epoch, claims and done are history fields: the nextRunAt
\* the enqueue transaction observed, whether that made the job due at the
\* time of its pass, whether the run was created after a restart, the number
\* of committed PENDING->RUNNING transitions, and whether
\* processPendingJobRuns is through with the run.  So are passNow, wrote,
\* cadence and jobStatus: the now of the pass, the nextRunAt the transaction
\* wrote, and the job's cadence and status when it committed.
NewRun(j, at, seen, passNow, wrote) ==
    [job |-> j, status |-> PENDING, createdAt |-> at, finishedAt |-> Null,
     message |-> "", logLocation |-> Null,
     basis |-> seen, wasDue |-> (seen = Null \/ seen <= passNow),
     epoch |-> restarted, claims |-> 0, done |-> FALSE,
     passNow |-> passNow, wrote |-> wrote,
     cadence |-> jobs[j].cadence, jobStatus |-> jobs[j].status]

\* skipped is a history field: the jobs of the pass whose transaction
\* returned false.  began is the time at which the open transaction began.
IdleSched == [pc |-> "idle", passNow |-> Null, due |-> {}, cur |-> "",
              seen |-> Null, stale |-> FALSE, skipped |-> {}, began |-> Null]

\* claimedAt is the time at which executeRun was called with the run.
IdleExec == [pc |-> "idle", run |-> 0, claimedAt |-> Null]

RunIds == 1..Len(runs)

\* Open enqueue transactions that read job j are invalidated by a committed
\* write on j's row (PostgreSQL raises a serialization failure for them).
Invalidate(s, j) ==
    [t \in Scheds |->
        IF t # s /\ sched[t].pc = "tx" /\ sched[t].cur = j
        THEN [sched[t] EXCEPT !.stale = TRUE]
        ELSE sched[t]]

----------------------------------------------------------------------------
(* Cadence scheduler: enqueueDueSyncJobs *)

\* where: status ACTIVE and (nextRunAt null or nextRunAt <= now)
IsDueAt(job, at) ==
    /\ job.status = ACTIVE
    /\ (job.nextRunAt = Null \/ job.nextRunAt <= at)

\* The pass starts: now is taken and the due jobs are queried.
SchedQuery(s) ==
    /\ sched[s].pc = "idle"
    /\ sched' = [sched EXCEPT ![s] =
                    [IdleSched EXCEPT !.pc = "loop", !.passNow = now,
                                      !.due = {j \in Jobs : IsDueAt(jobs[j], now)}]]
    /\ UNCHANGED <<now, jobs, runs, exec, restarted>>
    /\ UNCHANGED ioVars

\* The checks the transaction makes on the row it re-read.
StillActive_Unchecked(job) == TRUE

StillActive(job) == job.status = ACTIVE

StillDue_Unchecked(job, at) == TRUE

StillDue(job, at) == ~(job.nextRunAt # Null /\ job.nextRunAt > at)

\* The transaction of one due job begins and re-reads the job.
SchedTxRead(s) ==
    /\ sched[s].pc = "loop"
    /\ \E j \in sched[s].due :
        IF StillActive(jobs[j]) /\ StillDue(jobs[j], sched[s].passNow)
        THEN sched' = [sched EXCEPT ![s].pc = "tx", ![s].cur = j,
                                    ![s].seen = jobs[j].nextRunAt,
                                    ![s].stale = FALSE,
                                    ![s].began = now]
        ELSE \* return false: nothing is enqueued for this job
             sched' = [sched EXCEPT ![s].due = @ \ {j},
                                    ![s].skipped = @ \cup {j}]
    /\ UNCHANGED <<now, jobs, runs, exec, restarted>>
    /\ UNCHANGED ioVars

\* isolationLevel Serializable: the transaction cannot commit once the row
\* it read was written by a transaction that committed after its snapshot.
SerializationFailure_None(s) == FALSE

SerializationFailure(s) == sched[s].stale

\* jobRun.create, syncJob.update and the commit.  createdAt is the default
\* CURRENT_TIMESTAMP of the row: a time between the begin of the
\* transaction and its commit.
SchedTxCommit(s) ==
    /\ sched[s].pc = "tx"
    /\ ~SerializationFailure(s)
    /\ Len(runs) < MaxRuns
    /\ LET j == sched[s].cur
           nextRunAt == calculateNextRunAt(jobs[j].cadence, sched[s].seen,
                                           sched[s].passNow)
       IN  /\ \E createdAt \in sched[s].began..now :
                runs' = Append(runs, NewRun(j, createdAt, sched[s].seen,
                                            sched[s].passNow, nextRunAt))
           /\ jobs' = [jobs EXCEPT ![j].nextRunAt = nextRunAt]
           /\ sched' = [Invalidate(s, j) EXCEPT ![s].pc = "loop",
                                                ![s].due = @ \ {j},
                                                ![s].cur = "",
                                                ![s].seen = Null,
                                                ![s].began = Null]
    /\ UNCHANGED <<now, exec, restarted>>
    /\ UNCHANGED ioVars

\* The transaction throws (serialization failure or a transient database
\* error); nothing is written, the error is logged and the loop goes on.
SchedTxFail_KeepsRun(s) ==
    /\ sched[s].pc = "tx"
    /\ Len(runs) < MaxRuns
    /\ runs' = Append(runs, NewRun(sched[s].cur, now, sched[s].seen,
                                   sched[s].passNow, sched[s].seen))
    /\ sched' = [sched EXCEPT ![s].pc = "loop", ![s].due = @ \ {sched[s].cur},
                              ![s].cur = "", ![s].seen = Null, ![s].stale = FALSE,
                              ![s].began = Null]
    /\ UNCHANGED <<now, jobs, exec, restarted>>
    /\ UNCHANGED ioVars

SchedTxFail_EndsPass(s) ==
    /\ sched[s].pc = "tx"
    /\ sched' = [sched EXCEPT ![s] = IdleSched]
    /\ UNCHANGED <<now, jobs, runs, exec, restarted>>
    /\ UNCHANGED ioVars

SchedTxFail(s) ==
    /\ sched[s].pc = "tx"
    /\ sched' = [sched EXCEPT ![s].pc = "loop", ![s].due = @ \ {sched[s].cur},
                              ![s].cur = "", ![s].seen = Null, ![s].stale = FALSE,
                              ![s].began = Null]
    /\ UNCHANGED <<now, jobs, runs, exec, restarted>>
    /\ UNCHANGED ioVars

\* The loop over the due jobs ends and the pass returns.
SchedDone(s) ==
    /\ sched[s].pc = "loop"
    /\ sched[s].due = {}
    /\ sched' = [sched EXCEPT ![s] = IdleSched]
    /\ UNCHANGED <<now, jobs, runs, exec, restarted>>
    /\ UNCHANGED ioVars

----------------------------------------------------------------------------
(* The owner's job API: PATCH /api/sync-jobs/[id] *)

\* The owner pauses an active job.
PauseJob ==
    /\ \E j \in Jobs :
        /\ jobs[j].status = ACTIVE
        /\ jobs' = [jobs EXCEPT ![j].status = PAUSED]
        /\ sched' = Invalidate("", j)
    /\ UNCHANGED <<now, runs, exec, restarted>>
    /\ UNCHANGED ioVars

\* The owner resumes a paused job.
ResumeJob ==
    /\ \E j \in Jobs :
        /\ jobs[j].status = PAUSED
        /\ jobs' = [jobs EXCEPT ![j].status = ACTIVE]
        /\ sched' = Invalidate("", j)
    /\ UNCHANGED <<now, runs, exec, restarted>>
    /\ UNCHANGED ioVars

\* The request bodies of PATCH: a field is <<>> when the body does not have
\* it and <<v>> when it has the value v.
Optional(S) == {<<>>} \cup {<<v>> : v \in S}

UpdatePayload ==
    [status : Optional({ACTIVE, PAUSED}),
     cadence : Optional({FIFTEEN_MINUTES, HOURLY}),
     lastRunAt : Optional({Null} \cup (0..MaxTime)),
     nextRunAt : Optional({Null} \cup (0..MaxTime))]

\* The value the update writes for a field: the body's when it has one.
Patched(field, old) == IF field = <<>> THEN old ELSE field[1]

\* PATCH with any valid body: data takes each field the body has and
\* syncJob.update writes data.
PatchJob ==
    /\ \E j \in Jobs, body \in UpdatePayload :
        /\ jobs' = [jobs EXCEPT ![j] = [status |-> Patched(body.status, @.status),
                                        cadence |-> Patched(body.cadence, @.cadence),
                                        lastRunAt |-> Patched(body.lastRunAt, @.lastRunAt),
                                        nextRunAt |-> Patched(body.nextRunAt, @.nextRunAt)]]
        /\ sched' = Invalidate("", j)
    /\ UNCHANGED <<now, runs, exec, restarted>>
    /\ UNCHANGED ioVars

\* POST /api/sync-jobs/[id]/runs: the owner creates a run of the job with
\* the status given in the request body.
ApiRun(j, status) ==
    [NewRun(j, now, Null, now, Null) EXCEPT !.status = status]

PostRun ==
    /\ Len(runs) < MaxRuns
    /\ \E j \in Jobs, status \in JobRunStatus :
        runs' = Append(runs, ApiRun(j, status))
    /\ UNCHANGED <<now, jobs, sched, exec, restarted>>
    /\ UNCHANGED ioVars

----------------------------------------------------------------------------
(* Run claimer / executor loop: processPendingJobRuns *)

PendingRuns_OfActiveJobs ==
    {r \in RunIds : runs[r].status = PENDING /\ jobs[runs[r].job].status = ACTIVE}

PendingRuns == {r \in RunIds : runs[r].status = PENDING}

\* findFirst where status = PENDING orderBy createdAt asc
OldestPending ==
    {r \in PendingRuns : \A q \in PendingRuns : runs[r].createdAt <= runs[q].createdAt}

\* processPendingJobRuns is called.
ExecStartPass(e) ==
    /\ exec[e].pc = "idle"
    /\ exec' = [exec EXCEPT ![e] = [IdleExec EXCEPT !.pc = "select"]]
    /\ UNCHANGED <<now, jobs, runs, sched, restarted>>
    /\ UNCHANGED ioVars

\* claimNextPendingRun: the selection of the oldest PENDING run.
ClaimSelect(e) ==
    /\ exec[e].pc = "select"
    /\ IF PendingRuns = {}
       THEN exec' = [exec EXCEPT ![e] = IdleExec]
       ELSE \E r \in OldestPending :
                exec' = [exec EXCEPT ![e].pc = "update", ![e].run = r]
    /\ UNCHANGED <<now, jobs, runs, sched, restarted>>
    /\ UNCHANGED ioVars

\* updateMany where id = run.id and status = PENDING
ClaimUpdateMatches_AnyStatus(r) == TRUE

ClaimUpdateMatches(r) == runs[r].status = PENDING

\* claimNextPendingRun: the conditional PENDING -> RUNNING update.
ClaimUpdate(e) ==
    /\ exec[e].pc = "update"
    /\ LET r == exec[e].run IN
        IF ClaimUpdateMatches(r)
        THEN /\ runs' = [runs EXCEPT ![r].status = RUNNING,
                                     ![r].claims = @ + 1]
             /\ exec' = [exec EXCEPT ![e].pc = "run", ![e].claimedAt = now]
        ELSE \* another worker claimed it: zero rows, select again; or the
             \* database reports the concurrent update and the call throws
             /\ \/ exec' = [exec EXCEPT ![e].pc = "select", ![e].run = 0]
                \/ exec' = [exec EXCEPT ![e] = IdleExec]
             /\ UNCHANGED runs
    /\ UNCHANGED <<now, jobs, sched, restarted>>
    /\ UNCHANGED ioVars

\* The claim transaction throws; processPendingJobRuns does not catch it.
ClaimThrow(e) ==
    /\ exec[e].pc \in {"select", "update"}
    /\ exec' = [exec EXCEPT ![e] = IdleExec]
    /\ UNCHANGED <<now, jobs, runs, sched, restarted>>
    /\ UNCHANGED ioVars

\* What executeRun found out before its final transaction: the result of
\* preparation and runCalendarSync ("ok", a configuration error, or an
\* execution error), and the location writeRunLog returned (Null when the
\* log could not be persisted).
Outcomes == {"ok", "failed"}

\* executeRun returns: preparation, runCalendarSync, cleanup and writeRunLog
\* have ended, finishedAt is taken (a time between the call and the commit)
\* and the final transaction (jobRun.update, syncJob.update) commits.
Finalize_MovesNextRunAt(e) ==
    /\ exec[e].pc = "run"
    /\ \E outcome \in Outcomes, loc \in {exec[e].run, Null},
          finishedAt \in exec[e].claimedAt..now :
        LET r == exec[e].run
            j == runs[r].job
        IN  /\ runs' = [runs EXCEPT ![r].status = IF outcome = "ok" THEN SUCCESS ELSE FAILED,
                                    ![r].finishedAt = finishedAt,
                                    ![r].message = outcome,
                                    ![r].logLocation = loc,
                                    ![r].done = TRUE]
            /\ jobs' = [jobs EXCEPT ![j].lastRunAt = finishedAt,
                                    ![j].nextRunAt = finishedAt]
            /\ sched' = Invalidate("", j)
    /\ exec' = [exec EXCEPT ![e].pc = "select", ![e].run = 0, ![e].claimedAt = Null]
    /\ UNCHANGED <<now, restarted>>
    /\ UNCHANGED ioVars

Finalize(e) ==
    /\ exec[e].pc = "run"
    /\ \E outcome \in Outcomes, loc \in {exec[e].run, Null},
          finishedAt \in exec[e].claimedAt..now :
        LET r == exec[e].run
            j == runs[r].job
        IN  /\ runs' = [runs EXCEPT ![r].status = IF outcome = "ok" THEN SUCCESS ELSE FAILED,
                                    ![r].finishedAt = finishedAt,
                                    ![r].message = outcome,
                                    ![r].logLocation = loc,
                                    ![r].done = TRUE]
            /\ jobs' = [jobs EXCEPT ![j].lastRunAt = finishedAt]
            /\ sched' = Invalidate("", j)
    /\ exec' = [exec EXCEPT ![e].pc = "select", ![e].run = 0, ![e].claimedAt = Null]
    /\ UNCHANGED <<now, restarted>>
    /\ UNCHANGED ioVars

\* The final transaction throws: executeRun throws, processPendingJobRuns
\* catches it (failed += 1) and goes on to the next claim.
FinalizeThrow(e) ==
    /\ exec[e].pc = "run"
    /\ runs' = [runs EXCEPT ![exec[e].run].done = TRUE]
    /\ exec' = [exec EXCEPT ![e].pc = "select", ![e].run = 0, ![e].claimedAt = Null]
    /\ UNCHANGED <<now, jobs, sched, restarted>>
    /\ UNCHANGED ioVars

----------------------------------------------------------------------------
(* Environment *)

Tick ==
    /\ now < MaxTime
    /\ now' = now + 1
    /\ UNCHANGED <<jobs, runs, sched, exec, restarted>>
    /\ UNCHANGED ioVars

\* The process stops and starts again: in-flight transactions are rolled
\* back, in-process state is lost, the database is kept.
Restart ==
    /\ sched' = [s \in Scheds |-> IdleSched]
    /\ exec' = [e \in Execs |-> IdleExec]
    /\ restarted' = TRUE
    /\ UNCHANGED <<now, jobs, runs>>
    /\ UNCHANGED ioVars

----------------------------------------------------------------------------
(* Scratch files *)

Paths == {"rcDir", "rcConfig", "ageInput", "ageOutput", "runDir", "runAuth"}

Absent == [kind |-> "absent", body |-> <<>>]
Directory == [kind |-> "dir", body |-> <<>>]
ConfigYaml == [kind |-> "config", body |-> <<>>]
\* YAML.stringify(storageFile): the token records in clear text
PlainYaml(accounts) == [kind |-> "plain", body |-> accounts]
\* the output of `age --encrypt --passphrase` for that YAML
AgeEnvelope(accounts) == [kind |-> "age", body |-> accounts]

----------------------------------------------------------------------------
(* Process runner: runCalendarSync *)

\* access, exit and cleanup are history fields: how the access check went,
\* the code the child closed with, and what cleanupTempFiles did.
IdleRc == [pc |-> "idle", keep |-> FALSE, signal |-> "none", child |-> "none",
           killed |-> FALSE, stdout |-> 0, stderr |-> 0,
           result |-> [kind |-> "none"],
           access |-> "none", exit |-> "none", cleanup |-> "none"]

\* cleanupTempFiles(directory, keepConfigFile): nothing when the file is to be
\* kept; otherwise rm -rf of the directory, which succeeds or throws.
CleanupOutcomes(keep) == IF keep THEN {"kept"} ELSE {"removed", "failed"}

cleanupTempFiles(d, outcome) ==
    IF outcome = "removed"
    THEN [d EXCEPT !["rcDir"] = Absent, !["rcConfig"] = Absent]
    ELSE d

\* runCalendarSync is called, with or without keepConfigFile, and without a
\* signal, with one not yet aborted, or with one already aborted.
RcCall ==
    /\ rc.pc = "idle"
    /\ \E keep \in BOOLEAN, sig \in {"none", "armed", "aborted"} :
        rc' = [IdleRc EXCEPT !.pc = "access", !.keep = keep, !.signal = sig]
    /\ UNCHANGED <<dbVars, miscVars, disk, age, er, authStorage, logFiles, logOp>>

\* ensureBinaryIsExecutable: access(binaryPath, X_OK) or
\* CalendarSyncBinaryNotFoundError.
RcEnsureBinary ==
    /\ rc.pc = "access"
    /\ \/ rc' = [rc EXCEPT !.pc = "mkdtemp", !.access = "ok"]
       \/ rc' = [rc EXCEPT !.pc = "done", !.access = "denied",
                           !.result = [kind |-> "BinaryNotFound"]]
    /\ UNCHANGED <<dbVars, miscVars, disk, age, er, authStorage, logFiles, logOp>>

\* mkdtemp(join(baseDir, "calendarsync-")) or its exception.
RcMkdtemp ==
    /\ rc.pc = "mkdtemp"
    /\ \/ /\ rc' = [rc EXCEPT !.pc = "write"]
          /\ disk' = [disk EXCEPT !["rcDir"] = Directory]
       \/ /\ rc' = [rc EXCEPT !.pc = "done", !.result = [kind |-> "Error"]]
          /\ UNCHANGED disk
    /\ UNCHANGED <<dbVars, miscVars, age, er, authStorage, logFiles, logOp>>

\* writeFile(configPath, yamlContent) or its exception, which leaves the
\* function at once.
RcWriteConfig ==
    /\ rc.pc = "write"
    /\ \/ /\ rc' = [rc EXCEPT !.pc = "spawn"]
          /\ disk' = [disk EXCEPT !["rcConfig"] = ConfigYaml]
       \/ /\ rc' = [rc EXCEPT !.pc = "done", !.result = [kind |-> "Error"]]
          /\ UNCHANGED disk
    /\ UNCHANGED <<dbVars, miscVars, age, er, authStorage, logFiles, logOp>>

\* spawn(binaryPath, ["--config", configPath]) and the registration of the
\* abort handler: a signal that is already aborted kills the child at once.
RcSpawn ==
    /\ rc.pc = "spawn"
    /\ \E started \in BOOLEAN :
        rc' = [rc EXCEPT !.pc = "await",
                         !.child = IF started THEN "running" ELSE "failed",
                         !.killed = started /\ rc.signal = "aborted"]
    /\ UNCHANGED <<dbVars, miscVars, disk, age, er, authStorage, logFiles, logOp>>

RcAbort_Settles ==
    /\ rc.signal = "armed"
    /\ rc.pc # "idle"
    /\ rc' = [rc EXCEPT !.signal = "aborted",
                        !.killed = @ \/ (rc.pc = "await" /\ rc.child = "running"),
                        !.pc = IF rc.pc = "await" THEN "done" ELSE @,
                        !.result = IF rc.pc = "await" THEN [kind |-> "Error"] ELSE @]
    /\ UNCHANGED <<dbVars, miscVars, disk, age, er, authStorage, logFiles, logOp>>

\* The caller's signal fires: abortHandler sends SIGTERM when the handler is
\* registered and the child has not been killed.
RcAbort ==
    /\ rc.signal = "armed"
    /\ rc.pc # "idle"
    /\ rc' = [rc EXCEPT !.signal = "aborted",
                        !.killed = @ \/ (rc.pc = "await" /\ rc.child = "running")]
    /\ UNCHANGED <<dbVars, miscVars, disk, age, er, authStorage, logFiles, logOp>>

\* child.stdout "data"
ChildStdout ==
    /\ rc.pc = "await" /\ rc.child = "running"
    /\ rc.stdout < MaxChunks
    /\ rc' = [rc EXCEPT !.stdout = @ + 1]
    /\ UNCHANGED <<dbVars, miscVars, disk, age, er, authStorage, logFiles, logOp>>

\* child.stderr "data"
ChildStderr ==
    /\ rc.pc = "await" /\ rc.child = "running"
    /\ rc.stderr < MaxChunks
    /\ rc' = [rc EXCEPT !.stderr = @ + 1]
    /\ UNCHANGED <<dbVars, miscVars, disk, age, er, authStorage, logFiles, logOp>>

\* child "error": cleanup, then reject(error).
ChildError ==
    /\ rc.pc = "await" /\ rc.child = "failed"
    /\ \E outcome \in CleanupOutcomes(rc.keep) :
        /\ disk' = cleanupTempFiles(disk, outcome)
        /\ rc' = [rc EXCEPT !.pc = "done", !.cleanup = outcome,
                            !.result = [kind |-> "Error"]]
    /\ UNCHANGED <<dbVars, miscVars, age, er, authStorage, logFiles, logOp>>

\* The exit codes of the child; a killed child may end by the signal
\* (code null, modelled as Null).
ExitCodes == {0, 1}

Settlement_CleanupErrorFirst(executionResult, outcome) ==
    IF outcome = "failed" THEN [kind |-> "Error"]
    ELSE IF executionResult.success
    THEN [kind |-> "resolved", result |-> executionResult]
    ELSE [kind |-> "ExecutionError", result |-> executionResult]

\* How the close handler settles the promise, given the result it built and
\* the outcome of the cleanup.
Settlement(executionResult, outcome) ==
    IF executionResult.success
    THEN IF outcome = "failed"
         THEN [kind |-> "Error"]
         ELSE [kind |-> "resolved", result |-> executionResult]
    ELSE [kind |-> "ExecutionError", result |-> executionResult]

\* child "close": the result is built, cleanup runs, the promise settles.
ChildClose ==
    /\ rc.pc = "await" /\ rc.child = "running"
    /\ \E code \in ExitCodes \cup (IF rc.killed THEN {Null} ELSE {}),
          outcome \in CleanupOutcomes(rc.keep) :
        LET executionResult ==
                [exitCode |-> code,
                 signal |-> IF code = Null THEN "SIGTERM" ELSE "none",
                 stdout |-> rc.stdout, stderr |-> rc.stderr,
                 success |-> (code = 0)]
        IN  /\ disk' = cleanupTempFiles(disk, outcome)
            /\ rc' = [rc EXCEPT
                        !.pc = "done", !.child = "closed",
                        !.exit = code, !.cleanup = outcome,
                        !.result = Settlement(executionResult, outcome)]
    /\ UNCHANGED <<dbVars, miscVars, age, er, authStorage, logFiles, logOp>>

RunnerNext ==
    \/ RcCall
    \/ RcEnsureBinary
    \/ RcMkdtemp
    \/ RcWriteConfig
    \/ RcSpawn
    \/ RcAbort
    \/ ChildStdout
    \/ ChildStderr
    \/ ChildError
    \/ ChildClose

----------------------------------------------------------------------------
(* Secret bundler: createAuthStorageFile, encryptWithAge; and the use of the
   stored bundle by executeRun *)

\* The OAuth token records of the calendars of an account.
Tokens == {"t1", "t2"}

RECURSIVE SeqsUpTo(_, _)
SeqsUpTo(S, n) ==
    IF n = 0 THEN {<<>>}
    ELSE LET shorter == SeqsUpTo(S, n - 1)
         IN  shorter \cup {Append(q, x) : q \in shorter, x \in S}

IdleAge == [pc |-> "idle", accounts |-> <<>>, child |-> "none",
            result |-> [kind |-> "none"]]

\* createAuthStorageFile(accounts): the key is read from the environment.
AgeCall ==
    /\ age.pc = "idle"
    /\ \E accounts \in SeqsUpTo(Tokens, MaxAccounts), keySet \in BOOLEAN :
        age' = IF keySet
               THEN [IdleAge EXCEPT !.pc = "writeInput", !.accounts = accounts]
               ELSE [IdleAge EXCEPT !.pc = "done", !.result = [kind |-> "MissingKey"]]
    /\ UNCHANGED <<dbVars, miscVars, rc, disk, er, authStorage, logFiles, logOp>>

\* encryptWithAge: writeFile(tempInputFile, content), content being the YAML
\* of the storage file.
AgeWriteInput ==
    /\ age.pc = "writeInput"
    /\ \/ /\ disk' = [disk EXCEPT !["ageInput"] = PlainYaml(age.accounts)]
          /\ age' = [age EXCEPT !.pc = "spawn"]
       \/ /\ age' = [age EXCEPT !.pc = "unlinkInput", !.result = [kind |-> "Error"]]
          /\ UNCHANGED disk
    /\ UNCHANGED <<dbVars, miscVars, rc, er, authStorage, logFiles, logOp>>

\* spawn("age", ["--encrypt", "--passphrase", "--output", out, in]); the
\* passphrase goes to its stdin.
AgeSpawn ==
    /\ age.pc = "spawn"
    /\ \E started \in BOOLEAN :
        age' = [age EXCEPT !.pc = "await",
                           !.child = IF started THEN "running" ELSE "failed"]
    /\ UNCHANGED <<dbVars, miscVars, rc, disk, er, authStorage, logFiles, logOp>>

\* age "error": Failed to spawn age command.
AgeError ==
    /\ age.pc = "await" /\ age.child = "failed"
    /\ age' = [age EXCEPT !.pc = "unlinkInput", !.result = [kind |-> "Error"]]
    /\ UNCHANGED <<dbVars, miscVars, rc, disk, er, authStorage, logFiles, logOp>>

\* age "close": with code 0 the output file holds the envelope; otherwise the
\* promise is rejected with the captured stderr.
AgeClose ==
    /\ age.pc = "await" /\ age.child = "running"
    /\ \/ /\ disk' = [disk EXCEPT !["ageOutput"] = AgeEnvelope(age.accounts)]
          /\ age' = [age EXCEPT !.pc = "read", !.child = "closed"]
       \/ /\ age' = [age EXCEPT !.pc = "unlinkInput", !.child = "closed",
                                !.result = [kind |-> "Error"]]
          /\ UNCHANGED disk
    /\ UNCHANGED <<dbVars, miscVars, rc, er, authStorage, logFiles, logOp>>

\* readFile(tempOutputFile)
AgeRead ==
    /\ age.pc = "read"
    /\ age' = [age EXCEPT !.pc = "unlinkInput",
                          !.result = [kind |-> "resolved", content |-> disk["ageOutput"]]]
    /\ UNCHANGED <<dbVars, miscVars, rc, disk, er, authStorage, logFiles, logOp>>

\* finally: unlink(tempInputFile), errors ignored.
AgeUnlinkInput ==
    /\ age.pc = "unlinkInput"
    /\ \/ disk' = [disk EXCEPT !["ageInput"] = Absent]
       \/ UNCHANGED disk
    /\ age' = [age EXCEPT !.pc = "unlinkOutput"]
    /\ UNCHANGED <<dbVars, miscVars, rc, er, authStorage, logFiles, logOp>>

\* finally: unlink(tempOutputFile), errors ignored; the call returns.
AgeUnlinkOutput ==
    /\ age.pc = "unlinkOutput"
    /\ \/ disk' = [disk EXCEPT !["ageOutput"] = Absent]
       \/ UNCHANGED disk
    /\ age' = [age EXCEPT !.pc = "done"]
    /\ UNCHANGED <<dbVars, miscVars, rc, er, authStorage, logFiles, logOp>>

\* The setup-auth-storage route stores the returned bundle in the account.
StoreBundle ==
    /\ age.pc = "done"
    /\ IF age.result.kind = "resolved"
       THEN authStorage' = age.result.content
       ELSE UNCHANGED authStorage
    /\ age' = IdleAge
    /\ UNCHANGED <<dbVars, miscVars, rc, disk, er, logFiles, logOp>>

\* executeRun: mkdtemp of the run's scratch directory; without stored
\* bundle the run fails before anything is written.
ErMkdtemp ==
    /\ er = "idle"
    /\ disk' = [disk EXCEPT !["runDir"] = Directory]
    /\ er' = IF authStorage = Absent THEN "cleanup" ELSE "writeAuth"
    /\ UNCHANGED <<dbVars, miscVars, rc, age, authStorage, logFiles, logOp>>

\* executeRun: writeAuthStorageFile(authStoragePath, authStorageContent)
ErWriteAuth ==
    /\ er = "writeAuth"
    /\ \/ disk' = [disk EXCEPT !["runAuth"] = authStorage]
       \/ UNCHANGED disk
    /\ er' = "cleanup"
    /\ UNCHANGED <<dbVars, miscVars, rc, age, authStorage, logFiles, logOp>>

\* executeRun: finally rm(tempDir, recursive, force), errors logged.
ErCleanup ==
    /\ er = "cleanup"
    /\ \/ disk' = [disk EXCEPT !["runDir"] = Absent, !["runAuth"] = Absent]
       \/ UNCHANGED disk
    /\ er' = "idle"
    /\ UNCHANGED <<dbVars, miscVars, rc, age, authStorage, logFiles, logOp>>

BundleNext ==
    \/ AgeCall
    \/ AgeWriteInput
    \/ AgeSpawn
    \/ AgeError
    \/ AgeClose
    \/ AgeRead
    \/ AgeUnlinkInput
    \/ AgeUnlinkOutput
    \/ StoreBundle
    \/ ErMkdtemp
    \/ ErWriteAuth
    \/ ErCleanup

----------------------------------------------------------------------------
(* Run log store: writeRunLog, readRunLog.  Strings are sequences of
   characters; the path functions are those of POSIX. *)

Chars == {"/", ".", "a"}
Strings == SeqsUpTo(Chars, MaxLen)

Dot == <<".">>
DotDot == <<".", ".">>
LogSuffix == <<".", "l", "o", "g">>

\* getLogDirectory(): the configured log root
logDirectory == <<"/", "a">>

\* s.split("/")
RECURSIVE Split(_)
Split(s) ==
    IF s = <<>> THEN << <<>> >>
    ELSE LET rest == Split(Tail(s))
         IN  IF Head(s) = "/"
             THEN << <<>> >> \o rest
             ELSE << <<Head(s)>> \o Head(rest) >> \o Tail(rest)

\* segments.join("/")
RECURSIVE JoinSegs(_)
JoinSegs(segs) ==
    IF segs = <<>> THEN <<>>
    ELSE IF Len(segs) = 1 THEN Head(segs)
    ELSE Head(segs) \o <<"/">> \o JoinSegs(Tail(segs))

\* path's normalizeString: empty and "." segments vanish, ".." removes the
\* segment before it, or stays when nothing is left and the path is relative.
RECURSIVE NormSegs(_, _, _)
NormSegs(segs, out, allowAboveRoot) ==
    IF segs = <<>> THEN out
    ELSE LET h == Head(segs)
             t == Tail(segs)
         IN  IF h = <<>> \/ h = Dot THEN NormSegs(t, out, allowAboveRoot)
             ELSE IF h = DotDot
             THEN IF out # <<>> /\ out[Len(out)] # DotDot
                  THEN NormSegs(t, SubSeq(out, 1, Len(out) - 1), allowAboveRoot)
                  ELSE IF allowAboveRoot
                  THEN NormSegs(t, Append(out, DotDot), allowAboveRoot)
                  ELSE NormSegs(t, out, allowAboveRoot)
             ELSE NormSegs(t, Append(out, h), allowAboveRoot)

isAbsolute(p) == p # <<>> /\ p[1] = "/"

\* path.normalize
normalize(p) ==
    IF p = <<>> THEN Dot
    ELSE LET trailing == p[Len(p)] = "/"
             body == JoinSegs(NormSegs(Split(p), <<>>, ~isAbsolute(p)))
         IN  IF body = <<>>
             THEN IF isAbsolute(p) THEN <<"/">>
                  ELSE IF trailing THEN <<".", "/">> ELSE Dot
             ELSE (IF isAbsolute(p) THEN <<"/">> ELSE <<>>)
                  \o body \o (IF trailing THEN <<"/">> ELSE <<>>)

\* path.join(a, b)
join(a, b) ==
    normalize(IF a = <<>> THEN b
              ELSE IF b = <<>> THEN a
              ELSE a \o <<"/">> \o b)

\* path.resolve(dir, p) for an absolute dir
resolve(dir, p) ==
    LET full == IF isAbsolute(p) THEN p ELSE dir \o <<"/">> \o p
    IN  <<"/">> \o JoinSegs(NormSegs(Split(full), <<>>, FALSE))

\* the segments of a resolved path
SegsOf(abs) == NormSegs(Split(abs), <<>>, FALSE)

RECURSIVE CommonPrefix(_, _)
CommonPrefix(a, b) ==
    IF a = <<>> \/ b = <<>> \/ Head(a) # Head(b) THEN 0
    ELSE 1 + CommonPrefix(Tail(a), Tail(b))

\* path.relative(from, to) for resolved paths
relative(from, to) ==
    LET f == SegsOf(from)
        t == SegsOf(to)
        c == CommonPrefix(f, t)
    IN  JoinSegs([i \in 1..(Len(f) - c) |-> DotDot] \o SubSeq(t, c + 1, Len(t)))

startsWith(s, prefix) ==
    Len(s) >= Len(prefix) /\ SubSeq(s, 1, Len(prefix)) = prefix

EscapesLogDirectory_OnlyParent(absolutePath) ==
    relative(resolve(logDirectory, <<>>), absolutePath) = DotDot

\* the guard of writeRunLog and readRunLog
EscapesLogDirectory(absolutePath) ==
    startsWith(relative(resolve(logDirectory, <<>>), absolutePath), DotDot)

\* jobId, runId and content are the arguments of a call of writeRunLog that
\* returned, or the content a call of readRunLog returned.
IdleLog == [op |-> "none", absolutePath |-> <<>>, threw |-> "none",
            accessed |-> FALSE, returned |-> <<>>,
            jobId |-> <<>>, runId |-> <<>>, content |-> [kind |-> "none"]]

\* The log root without files, and writeFile(path, content, "utf8") on the
\* files: the file is created or its content replaced.
NoFiles == [f \in {} |-> [kind |-> "none"]]

writeFile(files, path, content) ==
    [f \in DOMAIN files \cup {path} |-> IF f = path THEN content ELSE files[f]]

\* The texts writeRunLog is called with.
Contents == {[kind |-> "text", body |-> b] : b \in {"x", "y"}}

\* writeRunLog(jobId, runId, content): the guard throws, or the file is
\* written (or the file system fails).
writeRunLog(jobId, runId, content, ioOk) ==
    LET relativePath == join(jobId, runId \o LogSuffix)
        absolutePath == resolve(logDirectory, relativePath)
        base == [IdleLog EXCEPT !.op = "write", !.absolutePath = absolutePath]
    IN  IF EscapesLogDirectory(absolutePath)
        THEN /\ logOp' = [base EXCEPT !.threw = "escapes"]
             /\ UNCHANGED logFiles
        ELSE IF ioOk
        THEN /\ logOp' = [base EXCEPT !.accessed = TRUE, !.returned = relativePath,
                                      !.jobId = jobId, !.runId = runId,
                                      !.content = content]
             /\ logFiles' = writeFile(logFiles, absolutePath, content)
        ELSE /\ logOp' = [base EXCEPT !.accessed = TRUE, !.threw = "io"]
             /\ UNCHANGED logFiles

\* writeRunLog is called once for a run and before its log is read.
WriteRunLog ==
    /\ logOp.op = "none"
    /\ \E jobId \in Strings, runId \in Strings, content \in Contents,
          ioOk \in BOOLEAN :
        writeRunLog(jobId, runId, content, ioOk)
    /\ UNCHANGED <<dbVars, miscVars, rc, disk, age, er, authStorage>>

\* The locations readRunLog is called with: the one writeRunLog returned for
\* the run, or, for a run without log, whatever its logLocation holds.
Locations ==
    IF logOp.op = "write" /\ logOp.threw = "none"
    THEN {logOp.returned}
    ELSE Strings

readRunLog_FromWorkingDirectory(location) ==
    LET absolutePath == resolve(<<"/">>, location)
        base == [IdleLog EXCEPT !.op = "read", !.absolutePath = absolutePath]
    IN  IF EscapesLogDirectory(absolutePath)
        THEN [base EXCEPT !.threw = "escapes"]
        ELSE IF absolutePath \in DOMAIN logFiles
        THEN [base EXCEPT !.accessed = TRUE, !.content = logFiles[absolutePath]]
        ELSE [base EXCEPT !.accessed = TRUE, !.threw = "io"]

\* readRunLog(location): the guard throws, or the file is read (ENOENT when
\* it does not exist).
readRunLog(location) ==
    LET absolutePath == resolve(logDirectory, location)
        base == [IdleLog EXCEPT !.op = "read", !.absolutePath = absolutePath]
    IN  IF EscapesLogDirectory(absolutePath)
        THEN [base EXCEPT !.threw = "escapes"]
        ELSE IF absolutePath \in DOMAIN logFiles
        THEN [base EXCEPT !.accessed = TRUE, !.content = logFiles[absolutePath]]
        ELSE [base EXCEPT !.accessed = TRUE, !.threw = "io"]

ReadRunLog ==
    /\ logOp.op # "read"
    /\ \E location \in Locations : logOp' = readRunLog(location)
    /\ UNCHANGED <<dbVars, miscVars, rc, disk, age, er, authStorage, logFiles>>

\* The ids of some jobs and runs.
LogIds == {<<"a">>, <<"a", "a">>}

\* writeRunLog is called with the ids of a job and a run, any number of
\* times.
StoreRunLog ==
    /\ \E jobId \in LogIds, runId \in LogIds, content \in Contents,
          ioOk \in BOOLEAN :
        writeRunLog(jobId, runId, content, ioOk)
    /\ UNCHANGED <<dbVars, miscVars, rc, disk, age, er, authStorage>>

StoreNext ==
    \/ StoreRunLog
    \/ ReadRunLog

\* The users, and the owner of each job.
Users == {"u1", "u2"}
OwnerOf(j) == IF j = "j1" THEN "u1" ELSE "u2"

\* The ids of the jobs and of the runs, as strings.
JobIdOf == <<"a">>
RunIdOf == <<"a">>
IdOfJob(j) == IF j = "j1" THEN JobIdOf ELSE <<"a", "a">>
IdOfRun(r) == IF r = 1 THEN RunIdOf ELSE <<"a", "a">>

\* The location of the log of run 1, and the logLocation values of request
\* bodies: that one or a short string.
LogLocationOf(j, r) == join(IdOfJob(j), IdOfRun(r) \o LogSuffix)
BodyLocations == Strings \cup {LogLocationOf("j1", 1)}

\* POST /api/sync-jobs/[id]/runs by the owner of the job with a body that
\* has a logLocation: the run is created with it.
PostRunLocated ==
    /\ Len(runs) < MaxRuns
    /\ \E j \in Jobs, status \in JobRunStatus, logLocation \in BodyLocations :
        runs' = Append(runs, [ApiRun(j, status) EXCEPT !.logLocation = logLocation])
    /\ UNCHANGED <<now, jobs, sched, exec, restarted>>
    /\ UNCHANGED <<rc, disk, age, er, authStorage, logFiles, logOp, miscVars>>

\* GET /api/sync-jobs/[id]/runs/[runId]/log by a user: 404 without a run of
\* that id of that job of a job the user owns, 404 when its logLocation is
\* empty, else the content readRunLog returns, or 500 when it throws.  Every
\* run here has a logLocation string.
GetRunLog ==
    /\ \E user \in Users, j \in Jobs, r \in 1..MaxRuns :
        LET found == r \in RunIds /\ runs[r].job = j /\ OwnerOf(j) = user
            read == readRunLog(runs[r].logLocation)
            request == [user |-> user, job |-> j, run |-> r]
        IN  logOp' =
                IF ~found
                THEN [IdleLog EXCEPT !.op = "get"] @@ request @@ [status |-> 404]
                ELSE IF runs[r].logLocation = <<>>
                THEN [IdleLog EXCEPT !.op = "get"] @@ request @@ [status |-> 404]
                ELSE [read EXCEPT !.op = "get"] @@ request
                        @@ [status |-> IF read.threw = "none" THEN 200 ELSE 500]
    /\ UNCHANGED <<dbVars, miscVars, rc, disk, age, er, authStorage, logFiles>>

ReadNext ==
    \/ PostRunLocated
    \/ GetRunLog

LogNext ==
    \/ WriteRunLog
    \/ ReadRunLog

----------------------------------------------------------------------------
(* The next-due computation on its own *)

IdleCalc == [op |-> "none"]

\* calculateNextRunAt(cadence, previousNextRunAt, now) for a previous due
\* time that is absent or not after now.
Calculate ==
    \E cadence \in SyncJobCadence, at \in 0..MaxNow :
      \E previousNextRunAt \in {Null} \cup 0..at :
        /\ calc' = [op |-> "calculateNextRunAt", cadence |-> cadence,
                    previousNextRunAt |-> previousNextRunAt, now |-> at,
                    result |-> calculateNextRunAt(cadence, previousNextRunAt, at)]
        /\ UNCHANGED <<dbVars, rc, disk, age, er, authStorage, logFiles, logOp, tz, xr, st, cb>>

----------------------------------------------------------------------------
(* Executor: executeRun on the run it claimed (run 1 of job j1) *)

IdleXr == [pc |-> "idle", tempDir |-> FALSE, success |-> FALSE,
           message |-> [kind |-> "none"], stdout |-> 0, stderr |-> 0,
           exitCode |-> Null, logLocation |-> Null, log |-> [kind |-> "none"]]

\* The catch block: extractFailureDetails(error) and the locals it sets.
Caught(x, kind) == [x EXCEPT !.success = FALSE, !.message = [kind |-> kind],
                             !.pc = "cleanup"]

\* mkdtemp of the run's scratch directory.
XrMkdtemp ==
    /\ xr.pc = "mkdtemp"
    /\ \/ /\ disk' = [disk EXCEPT !["runDir"] = Directory]
          /\ xr' = [xr EXCEPT !.pc = "prepare", !.tempDir = TRUE]
       \/ /\ xr' = Caught(xr, "Error")
          /\ UNCHANGED disk
    /\ UNCHANGED <<dbVars, rc, age, er, authStorage, logFiles, logOp, tz, calc, st, cb>>

\* The auth storage check and writeAuthStorageFile.
XrPrepare ==
    /\ xr.pc = "prepare"
    /\ \/ /\ authStorage # Absent
          /\ disk' = [disk EXCEPT !["runAuth"] = authStorage]
          /\ xr' = [xr EXCEPT !.pc = "call"]
       \/ /\ xr' = Caught(xr, IF authStorage = Absent THEN "NoAuthStorage" ELSE "Error")
          /\ UNCHANGED disk
    /\ UNCHANGED <<dbVars, rc, age, er, authStorage, logFiles, logOp, tz, calc, st, cb>>

\* runCalendarSync({config, workingDirectory: tempDir, onStdout, onStderr})
XrCall ==
    /\ xr.pc = "call"
    /\ rc' = [IdleRc EXCEPT !.pc = "access"]
    /\ xr' = [xr EXCEPT !.pc = "await"]
    /\ UNCHANGED <<dbVars, disk, age, er, authStorage, logFiles, logOp, tz, calc, st, cb>>

Min(a, b) == IF a < b THEN a ELSE b

\* runCalendarSync returned or threw: the locals after the try or the catch.
\* stdout and stderr count chunks (lines); the message of an execution error
\* ends with the last three lines of stderr.
XrReturn ==
    /\ xr.pc = "await"
    /\ rc.pc = "done"
    /\ xr' = CASE rc.result.kind = "resolved" ->
                    [xr EXCEPT !.pc = "cleanup", !.success = TRUE,
                               !.message = [kind |-> "completed"],
                               !.stdout = rc.result.result.stdout,
                               !.stderr = rc.result.result.stderr,
                               !.exitCode = rc.result.result.exitCode]
               [] rc.result.kind = "ExecutionError" ->
                    [xr EXCEPT !.pc = "cleanup", !.success = FALSE,
                               !.message = [kind |-> "exited",
                                            exitCode |-> rc.result.result.exitCode,
                                            stderrTail |-> Min(3, rc.result.result.stderr)],
                               !.stdout = rc.result.result.stdout,
                               !.stderr = rc.result.result.stderr,
                               !.exitCode = rc.result.result.exitCode]
               [] rc.result.kind = "BinaryNotFound" ->
                    Caught(xr, "BinaryNotFound")
               [] OTHER ->
                    \* the chunks the callbacks accumulated stay
                    [Caught(xr, "Error") EXCEPT !.stdout = rc.stdout,
                                                !.stderr = rc.stderr]
    /\ UNCHANGED <<dbVars, rc, disk, age, er, authStorage, logFiles, logOp, tz, calc, st, cb>>

\* finally: rm(tempDir, recursive, force) when tempDir is set; a failure is
\* logged.
XrCleanup ==
    /\ xr.pc = "cleanup"
    /\ \/ /\ xr.tempDir
          /\ disk' = [disk EXCEPT !["runDir"] = Absent, !["runAuth"] = Absent,
                                  !["rcDir"] = Absent, !["rcConfig"] = Absent]
       \/ UNCHANGED disk
    /\ xr' = [xr EXCEPT !.pc = "log"]
    /\ UNCHANGED <<dbVars, rc, age, er, authStorage, logFiles, logOp, tz, calc, st, cb>>

\* formatLogContent and writeRunLog(job.id, run.id, logContent); a failure
\* is logged and leaves logLocation null.
XrLog ==
    /\ xr.pc = "log"
    /\ LET relativePath == join(JobIdOf, RunIdOf \o LogSuffix)
           absolutePath == resolve(logDirectory, relativePath)
       IN  \/ /\ ~EscapesLogDirectory(absolutePath)
              /\ logFiles' = writeFile(logFiles, absolutePath,
                                      [kind |-> "log", message |-> xr.message,
                                       stdout |-> xr.stdout, stderr |-> xr.stderr])
              /\ xr' = [xr EXCEPT !.pc = "commit", !.logLocation = relativePath,
                                  !.log = [kind |-> "log", message |-> xr.message,
                                           stdout |-> xr.stdout, stderr |-> xr.stderr]]
           \/ /\ xr' = [xr EXCEPT !.pc = "commit", !.logLocation = Null]
              /\ UNCHANGED logFiles
    /\ UNCHANGED <<now, jobs, runs, sched, exec, restarted, rc, disk, age, er,
                   authStorage, logOp, tz, calc, st, cb>>

\* The final transaction: jobRun.update and syncJob.update; or it throws,
\* and executeRun with it.
XrCommit ==
    /\ xr.pc = "commit"
    /\ \/ /\ runs' = [runs EXCEPT ![1].status = IF xr.success THEN SUCCESS ELSE FAILED,
                                  ![1].finishedAt = now,
                                  ![1].message = xr.message,
                                  ![1].logLocation = xr.logLocation,
                                  ![1].done = TRUE]
          /\ jobs' = [jobs EXCEPT ![runs[1].job].lastRunAt = now]
       \/ /\ runs' = [runs EXCEPT ![1].done = TRUE]
          /\ UNCHANGED jobs
    /\ xr' = [xr EXCEPT !.pc = "done"]
    /\ UNCHANGED <<now, sched, exec, restarted, rc, disk, age, er, authStorage,
                   logFiles, logOp, tz, calc, st, cb>>

ExecuteNext ==
    \/ XrMkdtemp
    \/ XrPrepare
    \/ XrCall
    \/ RcEnsureBinary
    \/ RcMkdtemp
    \/ RcWriteConfig
    \/ RcSpawn
    \/ ChildStdout
    \/ ChildStderr
    \/ ChildError
    \/ ChildClose
    \/ XrReturn
    \/ XrCleanup
    \/ XrLog
    \/ XrCommit
    \/ Tick

----------------------------------------------------------------------------
(* Scheduler instance: startSyncJobScheduler, its cron task, checkScheduler *)

\* disabled is SYNC_JOB_SCHEDULER_DISABLED; task is
\* globalThis.__syncJobSchedulerTask; tickInFlight is the flag of the cron
\* callback.  History fields: timers, the number of tasks created and
\* started; calls, the number of calls of startSyncJobScheduler, what the
\* last one returned, and how many returned the existing task; ticks, skipped and started, the cron ticks fired, those
\* that returned at the flag, and those that began an enqueue pass;
\* tickPasses and startupPass, the passes in flight; health, the last answer
\* of checkScheduler with the number of timers at that time.
IdleSt == [disabled |-> FALSE, task |-> Null, timers |-> 0, calls |-> 0,
           returned |-> [kind |-> "none"], reused |-> 0, tickInFlight |-> FALSE,
           ticks |-> 0, skipped |-> 0, started |-> 0,
           tickPasses |-> 0, startupPass |-> FALSE,
           health |-> [status |-> "none"]]

\* startSyncJobScheduler(options): the existing task is returned; an invalid
\* cron expression throws; otherwise the task is created, started and
\* stored, and the startup pass begins unless runOnStartup is false.
StartSyncJobScheduler_NoReuse ==
    /\ st.calls < MaxCalls
    /\ \E validCron \in BOOLEAN, runOnStartup \in BOOLEAN :
        st' = IF ~validCron
              THEN [st EXCEPT !.calls = @ + 1, !.returned = [kind |-> "threw"]]
              ELSE [st EXCEPT !.calls = @ + 1,
                              !.timers = @ + 1,
                              !.task = st.timers + 1,
                              !.returned = [kind |-> "task", task |-> st.timers + 1],
                              !.startupPass = @ \/ runOnStartup]
    /\ UNCHANGED <<dbVars, rc, disk, age, er, authStorage, logFiles, logOp, tz, calc, xr, cb>>

StartSyncJobScheduler ==
    /\ st.calls < MaxCalls
    /\ \E validCron \in BOOLEAN, runOnStartup \in BOOLEAN :
        st' = IF st.task # Null
              THEN [st EXCEPT !.calls = @ + 1, !.reused = @ + 1,
                              !.returned = [kind |-> "task", task |-> st.task]]
              ELSE IF ~validCron
              THEN [st EXCEPT !.calls = @ + 1, !.returned = [kind |-> "threw"]]
              ELSE [st EXCEPT !.calls = @ + 1,
                              !.timers = @ + 1,
                              !.task = st.timers + 1,
                              !.returned = [kind |-> "task", task |-> st.timers + 1],
                              !.startupPass = @ \/ runOnStartup]
    /\ UNCHANGED <<dbVars, rc, disk, age, er, authStorage, logFiles, logOp, tz, calc, xr, cb>>

\* The cron callback: a tick that finds the flag set returns; otherwise the
\* flag is set and enqueueDueSyncJobs is called.
CronTick_NoFlag ==
    /\ st.task # Null
    /\ st.ticks < MaxTicks
    /\ st' = [st EXCEPT !.ticks = @ + 1, !.tickInFlight = TRUE,
                        !.started = @ + 1, !.tickPasses = @ + 1]
    /\ UNCHANGED <<dbVars, rc, disk, age, er, authStorage, logFiles, logOp, tz, calc, xr, cb>>

CronTick ==
    /\ st.task # Null
    /\ st.ticks < MaxTicks
    /\ st' = IF st.tickInFlight
             THEN [st EXCEPT !.ticks = @ + 1, !.skipped = @ + 1]
             ELSE [st EXCEPT !.ticks = @ + 1, !.tickInFlight = TRUE,
                             !.started = @ + 1, !.tickPasses = @ + 1]
    /\ UNCHANGED <<dbVars, rc, disk, age, er, authStorage, logFiles, logOp, tz, calc, xr, cb>>

\* The enqueue pass of a tick returns or throws: catch logs, finally clears
\* the flag.
TickPassEnd ==
    /\ st.tickPasses > 0
    /\ \E threw \in BOOLEAN :
        st' = [st EXCEPT !.tickPasses = @ - 1, !.tickInFlight = FALSE]
    /\ UNCHANGED <<dbVars, rc, disk, age, er, authStorage, logFiles, logOp, tz, calc, xr, cb>>

\* The startup pass returns or throws (then, catch).
StartupPassEnd ==
    /\ st.startupPass
    /\ st' = [st EXCEPT !.startupPass = FALSE]
    /\ UNCHANGED <<dbVars, rc, disk, age, er, authStorage, logFiles, logOp, tz, calc, xr, cb>>

\* checkScheduler of the health route.
checkScheduler ==
    IF st.disabled THEN "degraded"
    ELSE IF st.task # Null THEN "healthy"
    ELSE "unhealthy"

CheckScheduler ==
    /\ st' = [st EXCEPT !.health = [status |-> checkScheduler, timers |-> st.timers]]
    /\ UNCHANGED <<dbVars, rc, disk, age, er, authStorage, logFiles, logOp, tz, calc, xr, cb>>

TimerNext ==
    \/ StartSyncJobScheduler
    \/ CronTick
    \/ TickPassEnd
    \/ StartupPassEnd
    \/ CheckScheduler

----------------------------------------------------------------------------
(* Config builder *)

IdleCb == [op |-> "none"]

\* OPTION_DEFINITIONS, in their order: id, kind and the type toConfig gives.
OPTION_DEFINITIONS ==
    << [id |-> "titleTemplate", kind |-> "transformer", type |-> "titleTemplateTransformer"],
       [id |-> "descriptionNote", kind |-> "transformer", type |-> "descriptionNoteTransformer"],
       [id |-> "timeWindow", kind |-> "filter", type |-> "timeWindowFilter"],
       [id |-> "allDay", kind |-> "filter", type |-> "allDayEventFilter"] >>

\* The option ids a state map may hold: those of the definitions and one
\* that no definition has.  "absent" stands for a missing entry.
OptionKeys == {OPTION_DEFINITIONS[i].id : i \in DOMAIN OPTION_DEFINITIONS} \cup {"custom"}
OptionStates == [OptionKeys -> {"absent", "disabled", "enabled"}]

\* The types an item of a stored config may have: those of the definitions
\* and one that mapToCliFormat has no case for.
ItemTypes == {OPTION_DEFINITIONS[i].type : i \in DOMAIN OPTION_DEFINITIONS} \cup {"customTransformer"}

typeToName ==
    [titleTemplateTransformer |-> "ReplaceTitle",
     descriptionNoteTransformer |-> "KeepDescription",
     timeWindowFilter |-> "TimeFrame",
     allDayEventFilter |-> "AllDayEvents"]

RECURSIVE SelectConfigs(_, _, _)
SelectConfigs(state, kind, i) ==
    IF i > Len(OPTION_DEFINITIONS) THEN <<>>
    ELSE LET definition == OPTION_DEFINITIONS[i]
             rest == SelectConfigs(state, kind, i + 1)
         IN  IF state[definition.id] = "enabled" /\ definition.kind = kind
             THEN <<[type |-> definition.type]>> \o rest
             ELSE rest

\* buildConfigFromState(state): the configs of the enabled options of the
\* definitions, by kind.
buildConfigFromState(state) ==
    [transformers |-> SelectConfigs(state, "transformer", 1),
     filters |-> SelectConfigs(state, "filter", 1)]

\* mapToCliFormat(items, kind): an item of a type without a case is returned
\* under its own type as name.
mapToCliFormat(items) ==
    [i \in DOMAIN items |->
        [name |-> IF items[i].type \in DOMAIN typeToName
                  THEN typeToName[items[i].type]
                  ELSE items[i].type]]

\* buildCliConfig(options): the document, with the keys transformations and
\* filters only when the lists are not empty; or the error for missing
\* client credentials.
buildCliConfig(transformers, filters, credentials) ==
    LET transformations == mapToCliFormat(transformers)
        cliFilters == mapToCliFormat(filters)
        config == [sync |-> "MonthStart-1..MonthEnd+1", auth |-> "yaml",
                   source |-> "google", sink |-> "google"]
        withTransformations ==
            IF Len(transformations) > 0
            THEN config @@ [transformations |-> transformations]
            ELSE config
        withFilters ==
            IF Len(cliFilters) > 0
            THEN withTransformations @@ [filters |-> cliFilters]
            ELSE withTransformations
    IN  IF ~credentials
        THEN [kind |-> "Error"]
        ELSE [kind |-> "config", config |-> withFilters @@ [updateConcurrency |-> 1]]

\* generateYamlPreview(options): the document of a state map.
GenerateYamlPreview ==
    /\ cb.op = "none"
    /\ \E state \in OptionStates, credentials \in BOOLEAN :
        LET sanitized == buildConfigFromState(state)
        IN  cb' = [op |-> "preview", state |-> state,
                   transformers |-> sanitized.transformers,
                   filters |-> sanitized.filters,
                   result |-> buildCliConfig(sanitized.transformers,
                                             sanitized.filters, credentials)]
    /\ UNCHANGED <<dbVars, rc, disk, age, er, authStorage, logFiles, logOp, tz, calc, xr, st>>

\* buildCalendarSyncConfig(job, authStoragePath): the document of the
\* transformers and filters of the stored job.config, which PATCH stores as
\* sent.
BuildCalendarSyncConfig ==
    /\ cb.op = "none"
    /\ \E transformers \in SeqsUpTo({[type |-> t] : t \in ItemTypes}, MaxItems),
          filters \in SeqsUpTo({[type |-> t] : t \in ItemTypes}, MaxItems),
          credentials \in BOOLEAN :
        cb' = [op |-> "run", state |-> [k \in OptionKeys |-> "absent"],
               transformers |-> transformers, filters |-> filters,
               result |-> buildCliConfig(transformers, filters, credentials)]
    /\ UNCHANGED <<dbVars, rc, disk, age, er, authStorage, logFiles, logOp, tz, calc, xr, st>>

ConfigNext ==
    \/ GenerateYamlPreview
    \/ BuildCalendarSyncConfig

InitIo ==
    /\ rc = IdleRc
    /\ disk = [p \in Paths |-> Absent]
    /\ age = IdleAge
    /\ er = "idle"
    /\ authStorage = Absent
    /\ logFiles = NoFiles
    /\ logOp = IdleLog
    /\ calc = IdleCalc
    /\ xr = IdleXr
    /\ st = IdleSt
    /\ cb = IdleCb

----------------------------------------------------------------------------

\* The jobs the owner created.
CadenceOf(j) == IF j = "j1" THEN FIFTEEN_MINUTES ELSE HOURLY

InitDb(S, E) ==
    /\ tz = UTCZone
    /\ now = 0
    /\ jobs = [j \in {"j1"} |-> [status |-> ACTIVE, cadence |-> CadenceOf(j),
                               nextRunAt |-> Null, lastRunAt |-> Null]]
    /\ runs = <<>>
    /\ sched = [s \in S |-> IdleSched]
    /\ exec = [e \in E |-> IdleExec]
    /\ restarted = FALSE
    /\ InitIo

SchedNext ==
    \/ \E s \in Scheds : SchedQuery(s)
    \/ \E s \in Scheds : SchedTxRead(s)
    \/ \E s \in Scheds : SchedTxCommit(s)
    \/ \E s \in Scheds : SchedTxFail(s)
    \/ \E s \in Scheds : SchedDone(s)

ExecNext ==
    \/ \E e \in Execs : ExecStartPass(e)
    \/ \E e \in Execs : ClaimSelect(e)
    \/ \E e \in Execs : ClaimUpdate(e)
    \/ \E e \in Execs : ClaimThrow(e)
    \/ \E e \in Execs : Finalize(e)
    \/ \E e \in Execs : FinalizeThrow(e)

vars == <<now, jobs, runs, sched, exec, restarted, rc, disk, age, er, authStorage, logFiles, logOp, tz, calc, xr, st, cb>>

\* One scheduler and two executors on one database, with restarts.
Init == InitDb({"s1"}, {"e1", "e2"})

Next == SchedNext \/ ExecNext \/ Tick \/ Restart

Spec == Init /\ [][Next]_vars

\* One process: the cron tick pass and the run-on-startup pass of
\* startSyncJobScheduler may overlap, next to one executor loop.
InitSched == InitDb({"s1", "s2"}, {"e1"})

SpecSched == InitSched /\ [][Next]_vars

\* The process keeps running (no restart); every executor loop is called
\* again and again, and the database does not fail for ever.
FairNext == SchedNext \/ ExecNext \/ Tick

FairSpec ==
    /\ Init
    /\ [][FairNext]_vars
    /\ \A e \in {"e1", "e2"} :
        /\ WF_vars(ExecStartPass(e))
        /\ SF_vars(ClaimSelect(e))
        /\ SF_vars(ClaimUpdate(e))
        /\ SF_vars(Finalize(e))

\* One call of runCalendarSync.
SpecRunner == InitDb({}, {}) /\ [][RunnerNext]_vars

\* Secret bundles are created and stored, and runs use the stored bundle.
SpecBundle == InitDb({}, {}) /\ [][BundleNext]_vars

\* The log of a run is written and logs are read.
SpecLog == InitDb({}, {}) /\ [][LogNext]_vars

\* One scheduler and one executor, and the owner's run API.
ApiNext == Next \/ PostRun

SpecApi == InitDb({"s1"}, {"e1"}) /\ [][ApiNext]_vars

\* executeRun on a claimed run of a job whose accounts have a stored
\* bundle or none.
InitExecute ==
    /\ tz = UTCZone
    /\ now = 0
    /\ jobs = [j \in {"j1"} |-> [status |-> ACTIVE, cadence |-> CadenceOf(j),
                               nextRunAt |-> 1, lastRunAt |-> Null]]
    /\ restarted = FALSE
    /\ runs = << [NewRun("j1", 0, Null, 0, 1) EXCEPT !.status = RUNNING,
                                                     !.claims = 1] >>
    /\ sched = << >>
    /\ exec = << >>
    /\ rc = IdleRc
    /\ disk = [p \in Paths |-> Absent]
    /\ age = IdleAge
    /\ er = "idle"
    /\ authStorage \in {Absent, AgeEnvelope(<<"t1">>)}
    /\ logFiles = NoFiles
    /\ logOp = IdleLog
    /\ calc = IdleCalc
    /\ xr = [IdleXr EXCEPT !.pc = "mkdtemp"]
    /\ st = IdleSt
    /\ cb = IdleCb

SpecExecute == InitExecute /\ [][ExecuteNext]_vars

\* One process with SYNC_JOB_SCHEDULER_DISABLED set or not, in which
\* startSyncJobScheduler is called, the cron task ticks and the health route
\* is called.
InitTimer ==
    /\ tz = UTCZone
    /\ now = 0
    /\ jobs = [j \in {"j1"} |-> [status |-> ACTIVE, cadence |-> CadenceOf(j),
                               nextRunAt |-> Null, lastRunAt |-> Null]]
    /\ runs = <<>>
    /\ sched = << >>
    /\ exec = << >>
    /\ restarted = FALSE
    /\ rc = IdleRc
    /\ disk = [p \in Paths |-> Absent]
    /\ age = IdleAge
    /\ er = "idle"
    /\ authStorage = Absent
    /\ logFiles = NoFiles
    /\ logOp = IdleLog
    /\ calc = IdleCalc
    /\ xr = IdleXr
    /\ cb = IdleCb
    /\ \E disabled \in BOOLEAN : st = [IdleSt EXCEPT !.disabled = disabled]

SpecTimer == InitTimer /\ [][TimerNext]_vars

\* Documents are built for previews and for runs.
SpecConfig == InitDb({}, {}) /\ [][ConfigNext]_vars

\* Two executor loops race for the runs one scheduler creates; the database
\* stays available, so a claim fails only by the conflict with another
\* claim.
RaceNext ==
    \/ SchedNext
    \/ \E e \in Execs : ExecStartPass(e)
    \/ \E e \in Execs : ClaimSelect(e)
    \/ \E e \in Execs : ClaimUpdate(e)
    \/ \E e \in Execs : Finalize(e)
    \/ Tick

SpecRace == Init /\ [][RaceNext]_vars

\* One scheduler and two jobs that are due; transactions fail.
InitBatch ==
    /\ tz = UTCZone
    /\ now = 0
    /\ jobs = [j \in {"j1", "j2"} |->
                    [status |-> ACTIVE, cadence |-> CadenceOf(j),
                     nextRunAt |-> Null, lastRunAt |-> Null]]
    /\ runs = <<>>
    /\ sched = [s \in {"s1"} |-> IdleSched]
    /\ exec = << >>
    /\ restarted = FALSE
    /\ InitIo

BatchNext == SchedNext \/ Tick

SpecBatch == InitBatch /\ [][BatchNext]_vars

\* Two scheduler passes over two due jobs overlap, next to one executor
\* loop.
InitFifo ==
    /\ tz = UTCZone
    /\ now = 0
    /\ jobs = [j \in {"j1", "j2"} |->
                    [status |-> ACTIVE, cadence |-> CadenceOf(j),
                     nextRunAt |-> Null, lastRunAt |-> Null]]
    /\ runs = <<>>
    /\ sched = [s \in {"s1", "s2"} |-> IdleSched]
    /\ exec = [e \in {"e1"} |-> IdleExec]
    /\ restarted = FALSE
    /\ InitIo

SpecFifo == InitFifo /\ [][RaceNext]_vars

\* One call after another of processPendingJobRuns on a queue of PENDING
\* runs that no scheduler adds to.
InitDrain ==
    /\ tz = UTCZone
    /\ now = 0
    /\ jobs = [j \in {"j1"} |-> [status |-> ACTIVE, cadence |-> CadenceOf(j),
                                 nextRunAt |-> 1, lastRunAt |-> Null]]
    /\ restarted = FALSE
    /\ \E n \in 0..MaxRuns : runs = [r \in 1..n |-> NewRun("j1", 0, Null, 0, 1)]
    /\ sched = << >>
    /\ exec = [e \in {"e1"} |-> IdleExec]
    /\ InitIo

DrainNext == ExecNext \/ Tick

SpecDrain == InitDrain /\ [][DrainNext]_vars

\* One scheduler, one executor that is in executeRun with a run it claimed,
\* and the owner's PATCH requests.
InitOwner ==
    /\ tz = UTCZone
    /\ now = 0
    /\ jobs = [j \in {"j1"} |-> [status |-> ACTIVE, cadence |-> CadenceOf(j),
                               nextRunAt |-> 1, lastRunAt |-> Null]]
    /\ restarted = FALSE
    /\ runs = << [NewRun("j1", 0, Null, 0, 1) EXCEPT !.status = RUNNING,
                                                     !.claims = 1] >>
    /\ sched = [s \in {"s1"} |-> IdleSched]
    /\ exec = [e \in {"e1"} |-> [pc |-> "run", run |-> 1, claimedAt |-> 0]]
    /\ InitIo

OwnerNext ==
    \/ SchedNext
    \/ \E e \in Execs : Finalize(e)
    \/ PatchJob
    \/ Tick

SpecOwner == InitOwner /\ [][OwnerNext]_vars

\* The logs of runs are written, again and again, and read.
SpecStore == InitDb({}, {}) /\ [][StoreNext]_vars

\* Two users with a job each; run 1 of job j1 has been executed and its log
\* stored; the owners create runs and the users read run logs.
InitRead ==
    /\ tz = UTCZone
    /\ now = 0
    /\ jobs = [j \in {"j1", "j2"} |->
                    [status |-> ACTIVE, cadence |-> CadenceOf(j),
                     nextRunAt |-> 1, lastRunAt |-> 0]]
    /\ restarted = FALSE
    /\ runs = << [NewRun("j1", 0, Null, 0, 1) EXCEPT
                    !.status = SUCCESS, !.claims = 1, !.done = TRUE,
                    !.finishedAt = 0, !.message = [kind |-> "completed"],
                    !.logLocation = LogLocationOf("j1", 1)] >>
    /\ sched = << >>
    /\ exec = << >>
    /\ rc = IdleRc
    /\ disk = [p \in Paths |-> Absent]
    /\ age = IdleAge
    /\ er = "idle"
    /\ authStorage = Absent
    /\ logFiles = writeFile(NoFiles, resolve(logDirectory, LogLocationOf("j1", 1)),
                            [kind |-> "log", message |-> [kind |-> "completed"],
                             stdout |-> 0, stderr |-> 0])
    /\ logOp = IdleLog
    /\ calc = IdleCalc
    /\ xr = IdleXr
    /\ st = IdleSt
    /\ cb = IdleCb

SpecRead == InitRead /\ [][ReadNext]_vars

\* One scheduler and one executor loop that is called again and again, and
\* the owner pauses and resumes the job; the database does not fail for
\* ever.
PauseNext == SchedNext \/ ExecNext \/ PauseJob \/ ResumeJob \/ Tick

SpecPause ==
    /\ InitDb({"s1"}, {"e1"})
    /\ [][PauseNext]_vars
    /\ \A e \in {"e1"} :
        /\ WF_vars(ExecStartPass(e))
        /\ SF_vars(ClaimSelect(e))
        /\ SF_vars(ClaimUpdate(e))
        /\ SF_vars(Finalize(e))

\* calculateNextRunAt is called in a process of any time zone.
InitCadence ==
    /\ tz \in Zones
    /\ now = 0
    /\ jobs = [j \in {"j1"} |-> [status |-> ACTIVE, cadence |-> CadenceOf(j),
                               nextRunAt |-> Null, lastRunAt |-> Null]]
    /\ runs = <<>>
    /\ sched = << >>
    /\ exec = << >>
    /\ restarted = FALSE
    /\ InitIo

SpecCadence == InitCadence /\ [][Calculate]_vars

\* Scheduler passes over one job of any cadence, status and due time, at any
\* time of the day and in any time zone, while the owner pauses and resumes
\* the job.
InitPass ==
    /\ tz \in Zones
    /\ now \in 0..MaxNow
    /\ \E cadence \in SyncJobCadence, status \in {ACTIVE, PAUSED},
          nextRunAt \in {Null} \cup 0..MaxNow :
        jobs = [j \in {"j1"} |-> [status |-> status, cadence |-> cadence,
                                nextRunAt |-> nextRunAt, lastRunAt |-> Null]]
    /\ runs = <<>>
    /\ sched = [s \in {"s1", "s2"} |-> IdleSched]
    /\ exec = << >>
    /\ restarted = FALSE
    /\ InitIo

PassNext == SchedNext \/ PauseJob \/ ResumeJob \/ Tick

SpecPass == InitPass /\ [][PassNext]_vars

----------------------------------------------------------------------------
(* Claims *)

RunsOf(j, statuses) == {r \in RunIds : runs[r].job = j /\ runs[r].status \in statuses}

Holds(e, r) == exec[e].pc = "run" /\ exec[e].run = r

\* C1: for every job, at most one of its runs is PENDING or RUNNING in
\* every reachable state.
C1_AtMostOneOutstandingRun ==
    \A j \in Jobs : Cardinality(RunsOf(j, {PENDING, RUNNING})) <= 1

\* C2: for every job, at most one of its runs is RUNNING in every reachable
\* state.
C2_AtMostOneRunningRun ==
    \A j \in Jobs : Cardinality(RunsOf(j, {RUNNING})) <= 1

\* C3: every run has at most one committed PENDING -> RUNNING transition,
\* and no two executors hold (execute, finalize) the same run.
C3_EachRunClaimedOnce ==
    /\ \A r \in RunIds : runs[r].claims <= 1
    /\ \A e1, e2 \in Execs :
        (e1 # e2 /\ exec[e1].pc = "run" /\ exec[e2].pc = "run")
            => exec[e1].run # exec[e2].run

\* Two executors selected the same PENDING run; one has claimed it and the
\* other is about to attempt its conditional update.
C3_Witness ==
    \E e1, e2 \in Execs :
        /\ e1 # e2
        /\ Holds(e1, exec[e2].run)
        /\ exec[e2].pc = "update"
        /\ runs[exec[e2].run].claims = 1

\* C4: no two committed enqueue transactions of a job observed the same
\* nextRunAt.
C4_OneEnqueuePerObservedDue ==
    \A r1, r2 \in RunIds :
        (r1 # r2 /\ runs[r1].job = runs[r2].job) => runs[r1].basis # runs[r2].basis

\* Two passes read the same due job with the same nextRunAt; one committed
\* its run and the other, still open, can no longer commit.
C4_Witness ==
    \E s \in Scheds, r \in RunIds :
        /\ sched[s].pc = "tx"
        /\ sched[s].stale
        /\ runs[r].job = sched[s].cur
        /\ runs[r].basis = sched[s].seen

\* C5: every run that is PENDING eventually reaches a terminal state.
C5_EveryRunEventuallyTerminal ==
    \A r \in 1..MaxRuns :
        (r \in RunIds /\ runs[r].status = PENDING)
            ~> (r \in RunIds /\ runs[r].status \in Terminal)

\* C6: with restarts at any point, every run was created for a due instant
\* of its job that no other run was created for, and no run is claimed more
\* than once.
C6_RestartDuplicatesNoWork ==
    /\ \A r \in RunIds : runs[r].wasDue /\ runs[r].claims <= 1
    /\ \A r1, r2 \in RunIds :
        (r1 < r2 /\ runs[r1].job = runs[r2].job)
            => /\ runs[r1].basis # runs[r2].basis
               /\ runs[r2].basis # Null

\* A run was left RUNNING by a restart during its execution; after the
\* restart another run of the job was enqueued, claimed and finalized, and
\* the first run has still been claimed only once.
C6_Witness ==
    /\ restarted
    /\ \E r1, r2 \in RunIds :
        /\ runs[r1].job = runs[r2].job
        /\ runs[r1].status = RUNNING /\ ~runs[r1].done /\ runs[r1].claims = 1
        /\ \A e \in Execs : ~Holds(e, r1)
        /\ runs[r2].epoch /\ runs[r2].status \in Terminal

\* C7: once processPendingJobRuns is through with a run it claimed, the run
\* is in a terminal state with finishedAt and a message set.
C7_ProcessedRunsAreTerminal ==
    \A r \in RunIds :
        runs[r].done =>
            /\ runs[r].status \in Terminal
            /\ runs[r].finishedAt # Null
            /\ runs[r].message # ""

\* C8: when a runCalendarSync call without keepConfigFile has ended, the
\* scratch directory and the config file in it do not exist; with
\* keepConfigFile a call that wrote them has retained them.
C8_ScratchRemovedOnEveryExit ==
    rc.pc = "done" =>
        IF rc.keep
        THEN rc.child # "none" =>
                (disk["rcDir"] = Directory /\ disk["rcConfig"] = ConfigYaml)
        ELSE disk["rcDir"] = Absent /\ disk["rcConfig"] = Absent

\* C9: no file on disk holds OAuth tokens in clear text.
C9_NoPlaintextOnDisk ==
    \A p \in Paths : disk[p].kind = "plain" => disk[p].body = <<>>

\* A resolved path lies outside the log root when its segments do not begin
\* with the segments of the root.
OutsideLogRoot(abs) ==
    LET r == SegsOf(logDirectory)
        a == SegsOf(abs)
    IN  ~(Len(a) >= Len(r) /\ SubSeq(a, 1, Len(r)) = r)

\* C10: a call of writeRunLog or readRunLog whose resolved path lies outside
\* the log root throws without touching the file system, and no file
\* outside the root has been written.
C10_EscapingPathsAreRejected ==
    /\ (logOp.op # "none" /\ OutsideLogRoot(logOp.absolutePath)) =>
            (logOp.threw = "escapes" /\ ~logOp.accessed)
    /\ \A f \in DOMAIN logFiles : ~OutsideLogRoot(f)

C10_Witness ==
    /\ logOp.op = "write"
    /\ OutsideLogRoot(logOp.absolutePath)
    /\ logOp.threw = "escapes"

\* C11: calculateNextRunAt returns base + k * d for a whole k >= 1, where d
\* is the cadence interval and base the previous due time (or now when
\* absent); the result is after now and k is the smallest such number.
C11_NextRunIsNextWholeInterval ==
    calc.op = "calculateNextRunAt" =>
        LET d == IntervalOf(calc.cadence)
            base == IF calc.previousNextRunAt = Null THEN calc.now
                    ELSE calc.previousNextRunAt
        IN  /\ \E k \in 1..(MaxNow + 1) : calc.result = base + k * d
            /\ calc.result > calc.now
            /\ calc.result - d <= calc.now

\* The first slot after T of the schedule that starts at p and has a slot
\* every d units.
FirstSlotAfter(p, d, T) == p + ((T - p) \div d + 1) * d

\* The runs of the job of run r that were created by passes with r's now.
RunsOfPass(r) ==
    {q \in RunIds : runs[q].job = runs[r].job /\ runs[q].passNow = runs[r].passNow}

\* C12: a pass at T that finds a job's nextRunAt one or more intervals in the
\* past creates one run for it, not one per missed interval, and sets
\* nextRunAt to the first slot of the job's schedule after T; further passes
\* at T create no run for the job.
C12_CatchUpWithoutBacklog ==
    \A r \in RunIds :
        (runs[r].basis # Null /\ runs[r].basis <= runs[r].passNow) =>
            /\ RunsOfPass(r) = {r}
            /\ runs[r].wrote = FirstSlotAfter(runs[r].basis,
                                              IntervalOf(runs[r].cadence),
                                              runs[r].passNow)

\* C13: a pass at T over an active job without nextRunAt creates one run and
\* sets nextRunAt to T plus one cadence interval.
C13_FirstRunSetsNextInterval ==
    \A r \in RunIds :
        runs[r].basis = Null =>
            /\ Cardinality(RunsOfPass(r)) = 1
            /\ runs[r].wrote = runs[r].passNow + IntervalOf(runs[r].cadence)

\* C14: every enqueue transaction that created a run and advanced nextRunAt
\* committed on a job that was ACTIVE, also when the job was paused after
\* the due-job query of the pass.
C14_PausedJobsAreNotEnqueued ==
    \A r \in RunIds : runs[r].jobStatus = ACTIVE

C14_Witness ==
    \E s \in Scheds, j \in Jobs :
        /\ j \in sched[s].skipped
        /\ jobs[j].status = PAUSED
        /\ jobs[j].nextRunAt = Null \/ jobs[j].nextRunAt <= sched[s].passNow
        /\ runs = <<>>

\* C15: every nextRunAt the scheduler writes is after the now of its pass
\* and after the value it replaces, and the values written to a job never
\* decrease.
C15_NextRunAtOnlyAdvances ==
    \A r \in RunIds :
        /\ runs[r].wrote > runs[r].passNow
        /\ runs[r].basis # Null => runs[r].wrote > runs[r].basis
        /\ \A q \in 1..(r - 1) :
            runs[q].job = runs[r].job => runs[q].wrote <= runs[r].wrote

C15_Witness ==
    /\ Len(runs) = 2
    /\ runs[2].basis = runs[1].wrote
    /\ tz # UTCZone

\* The columns of a JobRun row.
RowOf(run) ==
    [job |-> run.job, status |-> run.status, createdAt |-> run.createdAt,
     finishedAt |-> run.finishedAt, message |-> run.message,
     logLocation |-> run.logLocation]

\* C16: every run is created PENDING; its status changes only from PENDING
\* to RUNNING and from RUNNING to a terminal status; a terminal run is not
\* changed again; and no run disappears while its job exists.
C16_RunLifecycle ==
    [][/\ Len(runs') >= Len(runs)
       /\ \A r \in 1..Len(runs) :
            /\ runs[r].status \in Terminal => RowOf(runs'[r]) = RowOf(runs[r])
            /\ runs'[r].status # runs[r].status =>
                    \/ runs[r].status = PENDING /\ runs'[r].status = RUNNING
                    \/ runs[r].status = RUNNING /\ runs'[r].status \in Terminal
       /\ \A r \in (Len(runs) + 1)..Len(runs') : runs'[r].status = PENDING]_vars

\* C17: when the abort signal has fired and the child runs, SIGTERM has been
\* sent to it; and a call that spawned a child has not ended before the
\* child closed (or failed to start) and cleanup was attempted.
C17_CancelledCallWaitsForChild ==
    /\ (rc.pc = "await" /\ rc.child = "running" /\ rc.signal = "aborted") => rc.killed
    /\ (rc.pc = "done" /\ rc.child # "none") =>
            (rc.child \in {"closed", "failed"} /\ rc.cleanup # "none")

C17_Witness ==
    /\ rc.pc = "done"
    /\ rc.signal = "aborted"
    /\ rc.killed
    /\ rc.child = "closed"
    /\ rc.exit = Null

\* C18: a failed access check is reported as CalendarSyncBinaryNotFoundError
\* and nothing else is, with no scratch directory created and no child
\* spawned; a child that closed with another code than 0 is reported as
\* CalendarSyncExecutionError, and nothing else is, with the exit code and
\* all of the captured stdout and stderr.
C18_FailureKindsAreDistinct ==
    rc.pc = "done" =>
        /\ (rc.access = "denied") = (rc.result.kind = "BinaryNotFound")
        /\ rc.result.kind = "BinaryNotFound" =>
                (disk["rcDir"] = Absent /\ disk["rcConfig"] = Absent
                 /\ rc.child = "none")
        /\ (rc.child = "closed" /\ rc.exit # 0) = (rc.result.kind = "ExecutionError")
        /\ rc.result.kind = "ExecutionError" =>
                /\ rc.result.result.exitCode = rc.exit
                /\ rc.result.result.stdout = rc.stdout
                /\ rc.result.result.stderr = rc.stderr
                /\ ~rc.result.result.success

C18_Witness ==
    /\ rc.pc = "done"
    /\ rc.result.kind = "ExecutionError"
    /\ rc.exit = 1
    /\ rc.stderr > 0
    /\ rc.cleanup = "failed"

\* C19: when the binary path is missing at the time the claimed run is
\* executed, the run ends FAILED with the configuration error that names the
\* binary path, no child is spawned and no scratch directory remains.
C19_MissingBinaryFailsTheRun ==
    (xr.pc = "done" /\ rc.access = "denied") =>
        /\ runs[1].status = FAILED
        /\ runs[1].message = [kind |-> "BinaryNotFound"]
        /\ rc.child = "none"
        /\ \A p \in {"runDir", "runAuth", "rcDir", "rcConfig"} : disk[p] = Absent

\* C20: when the tool exits with code 1 after writing to stderr, the run ends
\* FAILED, its message contains the tail of stderr, and the run log the log
\* route returns holds the full stdout and stderr.
C20_FailedToolRunIsLogged ==
    (xr.pc = "done" /\ rc.child = "closed" /\ rc.exit = 1 /\ rc.stderr > 0) =>
        /\ runs[1].status = FAILED
        /\ runs[1].message.kind = "exited"
        /\ runs[1].message.stderrTail > 0
        /\ xr.log.kind = "log"
        /\ runs[1].logLocation = xr.logLocation
        /\ resolve(logDirectory, runs[1].logLocation) \in DOMAIN logFiles
        /\ xr.log.stdout = rc.stdout
        /\ xr.log.stderr = rc.stderr

\* C21: when persisting the run log fails, the run still ends in the
\* terminal status of the execution outcome (SUCCESS after a successful
\* execution, FAILED after a failed one) and its logLocation is null.
C21_LogFailureKeepsOutcome ==
    (xr.pc = "done" /\ xr.log.kind = "none") =>
        /\ runs[1].status = (IF xr.success THEN SUCCESS ELSE FAILED)
        /\ runs[1].logLocation = Null

\* C22: within one scheduler instance at most one enqueue pass of a cron
\* tick is in flight; a tick that fires during it starts no pass and is not
\* kept for later (every tick either started a pass at once or was skipped);
\* the flag is set exactly while the pass is in flight, so it is cleared
\* when the pass ends, returned or thrown, and the next tick starts a pass.
C22_OverlappingTicksAreSkipped ==
    /\ [](/\ st.tickPasses <= 1
          /\ st.tickInFlight = (st.tickPasses = 1)
          /\ st.started + st.skipped = st.ticks)
    /\ [][st'.ticks = st.ticks + 1 =>
            IF st.tickPasses > 0
            THEN /\ st'.started = st.started
                 /\ st'.tickPasses = st.tickPasses
                 /\ st'.skipped = st.skipped + 1
            ELSE /\ st'.started = st.started + 1
                 /\ st'.tickPasses = 1]_vars

C22_Witness ==
    /\ st.skipped > 0
    /\ st.started >= 2
    /\ st.tickPasses = 1

\* C23: in one process at most one scheduler timer is created, by the first
\* call of startSyncJobScheduler that does not throw; every call that
\* returns, returns that task; and checkScheduler answers healthy exactly
\* when the timer exists and the scheduler is not disabled.
C23_OneTimerPerProcess ==
    /\ st.timers <= 1
    /\ (st.task # Null) = (st.timers = 1)
    /\ st.returned.kind = "task" => (st.timers = 1 /\ st.returned.task = st.task)
    /\ st.health.status # "none" =>
            ((st.health.status = "healthy") = (st.health.timers = 1 /\ ~st.disabled))

C23_Witness ==
    /\ st.calls = 2
    /\ st.reused = 1
    /\ st.returned.kind = "task"
    /\ st.health.status = "healthy"
    /\ st.health.timers = 1

\* The names of the list under key k of the built document.
NamesIn(k) ==
    IF k \in DOMAIN cb.result.config
    THEN {cb.result.config[k][i].name : i \in DOMAIN cb.result.config[k]}
    ELSE {}

KnownNames == {typeToName[t] : t \in DOMAIN typeToName}

\* C24: the built document holds only options that are known and enabled:
\* no name of an unknown type is under transformations or filters, a
\* document built from option states names exactly the enabled options of
\* the definitions, and a key is absent when its list is empty.
C24_OnlyKnownEnabledOptions ==
    (cb.op # "none" /\ cb.result.kind = "config") =>
        /\ NamesIn("transformations") \cup NamesIn("filters") \subseteq KnownNames
        /\ cb.op = "preview" =>
                NamesIn("transformations") \cup NamesIn("filters") =
                    {typeToName[OPTION_DEFINITIONS[i].type] :
                        i \in {n \in DOMAIN OPTION_DEFINITIONS :
                                    cb.state[OPTION_DEFINITIONS[n].id] = "enabled"}}
        /\ ("transformations" \in DOMAIN cb.result.config) = (cb.transformers # <<>>)
        /\ ("filters" \in DOMAIN cb.result.config) = (cb.filters # <<>>)

\* C25: an executor whose conditional update finds the run claimed by
\* another worker raises no error and does not end its pass: its next step
\* is the selection of the oldest remaining PENDING run.
C25_LostClaimIsRetried ==
    [][\A e \in Execs :
          (/\ exec[e].pc = "update"
           /\ runs[exec[e].run].status # PENDING
           /\ exec'[e] # exec[e])
          => exec'[e].pc = "select"]_vars

\* C26: when claiming throws, processPendingJobRuns does not end: a pass
\* that is claiming ends only when it finds no PENDING run.
C26_ClaimErrorDoesNotEndThePass ==
    [][\A e \in Execs :
          (exec[e].pc \in {"select", "update"} /\ exec'[e].pc = "idle")
          => PendingRuns = {}]_vars

\* The runs of job j, and among them the one created last before run r
\* (0 when r is the first).
JobRuns(j) == {r \in RunIds : runs[r].job = j}

Previous(j, r) ==
    LET earlier == {q \in JobRuns(j) : q < r}
    IN  IF earlier = {} THEN 0
        ELSE CHOOSE q \in earlier : \A p \in earlier : p <= q

\* A pass whose transaction of job j failed: j was due when the pass began,
\* is no longer to be attempted, was not skipped, and no run was created.
FailedIn(s, j) ==
    /\ sched[s].pc = "loop"
    /\ j \notin sched[s].due
    /\ j \notin sched[s].skipped
    /\ JobRuns(j) = {}
    /\ IsDueAt(jobs[j], sched[s].passNow)

\* C27: for each job the runs and the values of nextRunAt form one chain:
\* a job without runs has the nextRunAt it began with, every run was
\* created by a transaction that advanced nextRunAt from the value left by
\* the run before, and nextRunAt is the value written with the last run.
\* So runs and advances are equal in number in every state.
C27_EnqueueIsAtomic ==
    \A j \in Jobs :
        /\ JobRuns(j) = {} => jobs[j].nextRunAt = Null
        /\ \A r \in JobRuns(j) :
            /\ runs[r].wrote # Null
            /\ runs[r].wrote > runs[r].basis
            /\ runs[r].basis = (IF Previous(j, r) = 0 THEN Null
                                ELSE runs[Previous(j, r)].wrote)
            /\ (\A q \in JobRuns(j) : q <= r) => jobs[j].nextRunAt = runs[r].wrote

C27_Witness ==
    \E s \in Scheds, j \in Jobs, k \in Jobs :
        /\ FailedIn(s, j)
        /\ Cardinality(JobRuns(k)) = 2

\* C28: when the transaction of a due job ends without creating a run, the
\* pass goes on with the other due jobs of its list, and the job and the
\* runs are as before, so that the job is still due at the time of the pass
\* and after it.
C28_FailedEnqueueIsIsolated ==
    [][\A s \in Scheds :
          (/\ sched[s].pc = "tx"
           /\ sched'[s].pc # "tx"
           /\ Len(runs') = Len(runs))
          => /\ sched'[s].pc = "loop"
             /\ sched'[s].due = sched[s].due \ {sched[s].cur}
             /\ sched'[s].passNow = sched[s].passNow
             /\ jobs' = jobs
             /\ runs' = runs
             /\ IsDueAt(jobs'[sched[s].cur], sched[s].passNow)
             /\ IsDueAt(jobs'[sched[s].cur], now')]_vars

C28_Witness ==
    \E s \in Scheds, j \in Jobs, k \in Jobs :
        /\ FailedIn(s, j)
        /\ sched[s].due = {}
        /\ \E r \in JobRuns(k) : runs[r].passNow = sched[s].passNow

\* C29: whenever a run is moved from PENDING to RUNNING, no other run that
\* is PENDING at that moment has an earlier creation time.
C29_ClaimsAreFifo ==
    [][\A r \in RunIds :
          (runs[r].status = PENDING /\ runs'[r].status = RUNNING)
          => \A q \in RunIds :
                runs[q].status = PENDING => runs[r].createdAt <= runs[q].createdAt]_vars

\* C30: a call of processPendingJobRuns on a queue that is not added to
\* claims each PENDING run at most once and ends only when no PENDING run is
\* left; on an empty queue it ends with its first selection.
C30_PassDrainsTheQueue ==
    /\ [](\A r \in RunIds : runs[r].claims <= 1)
    /\ [][\A e \in Execs :
            /\ (exec[e].pc # "idle" /\ exec'[e].pc = "idle") => PendingRuns' = {}
            /\ (exec[e].pc = "select" /\ PendingRuns = {} /\ exec'[e] # exec[e])
                    => exec'[e].pc = "idle"]_vars

\* C31: a job with a terminal run has as lastRunAt the greatest finishedAt
\* of its terminal runs, and a job without one has lastRunAt null.
C31_LastRunAtIsLatestCompletion ==
    \A j \in Jobs :
        LET completed == RunsOf(j, Terminal)
        IN  IF completed = {}
            THEN jobs[j].lastRunAt = Null
            ELSE /\ \E r \in completed : jobs[j].lastRunAt = runs[r].finishedAt
                 /\ \A r \in completed : runs[r].finishedAt <= jobs[j].lastRunAt

\* C32: a step that takes a run from RUNNING to a terminal status creates
\* no run, changes no other run, keeps that run's job and createdAt, changes
\* of the jobs only lastRunAt of the run's job (status, cadence and nextRunAt
\* stay), and leaves the stored bundle as it is; and no FAILED run is put
\* back to PENDING.
C32_CompletionTouchesOnlyItsRun ==
    [][/\ \A r \in RunIds :
            (runs[r].status = RUNNING /\ runs'[r].status \in Terminal)
            => /\ Len(runs') = Len(runs)
               /\ \A q \in RunIds \ {r} : runs'[q] = runs[q]
               /\ runs'[r].job = runs[r].job
               /\ runs'[r].createdAt = runs[r].createdAt
               /\ \A k \in Jobs :
                    jobs'[k] = IF k = runs[r].job
                               THEN [jobs[k] EXCEPT !.lastRunAt = runs'[r].finishedAt]
                               ELSE jobs[k]
               /\ authStorage' = authStorage
       /\ \A r \in RunIds : runs[r].status = FAILED => runs'[r].status = FAILED]_vars

C32_Witness ==
    \E r \in RunIds :
        /\ runs[r].status = FAILED
        /\ jobs[runs[r].job].status = ACTIVE
        /\ jobs[runs[r].job].lastRunAt = runs[r].finishedAt
        /\ RunsOf(runs[r].job, {PENDING}) # {}

\* C33: a step changes a job's nextRunAt only when it also creates a run of
\* the job (the enqueue transaction), and a job's lastRunAt only when it
\* also takes a RUNNING run of the job to a terminal status (the completion
\* transaction); so a step of the owner's update changes neither.
C33_TimestampsHaveOneWriter ==
    [][\A j \in Jobs :
          /\ jobs'[j].nextRunAt # jobs[j].nextRunAt
                => \E r \in DOMAIN runs' \ RunIds : runs'[r].job = j
          /\ jobs'[j].lastRunAt # jobs[j].lastRunAt
                => \E r \in RunIds : /\ runs[r].job = j
                                     /\ runs[r].status = RUNNING
                                     /\ runs'[r].status \in Terminal]_vars

\* C34: when executeRun is through, the run is SUCCESS if the tool was
\* started and its process ended with exit code 0, and FAILED otherwise; the
\* run is never CANCELLED.
C34_SuccessIffExitZero ==
    /\ runs[1].status # CANCELLED
    /\ xr.pc = "done"
        => IF rc.child = "closed" /\ rc.exit = 0
           THEN runs[1].status = SUCCESS
           ELSE runs[1].status = FAILED

\* C35: when executeRun is through, the run's scratch directory and every
\* file in it are gone: of what the call wrote, only the run log is on disk.
C35_NoScratchAfterTheRun ==
    xr.pc = "done" => \A p \in Paths : disk[p] = Absent

\* C36: in one process at most one pass of enqueueDueSyncJobs is in flight,
\* the passes of the cron ticks and the run-on-startup pass counted
\* together.
C36_OnePassInFlight ==
    st.tickPasses + (IF st.startupPass THEN 1 ELSE 0) <= 1

\* The file {jobId}/{runId}.log under the log root.
LogFileOf(jobId, runId) ==
    resolve(logDirectory, jobId \o <<"/">> \o runId \o LogSuffix)

C40_StoredLogsNeverChange ==
    [][\A f \in DOMAIN logFiles :
          f \in DOMAIN logFiles' /\ logFiles'[f] = logFiles[f]]_vars

\* C37: a request for the log of a run that is answered with content was
\* made by the owner of the job, for a run of that job, and the content is
\* that of the file the executor writes for that job id and run id; so
\* nobody is given the log of a run of another user's job.
C37_LogReadsAreOwnRunLogs ==
    (logOp.op = "get" /\ logOp.status = 200)
        => /\ OwnerOf(logOp.job) = logOp.user
           /\ runs[logOp.run].job = logOp.job
           /\ logOp.absolutePath = resolve(logDirectory, LogLocationOf(logOp.job, logOp.run))

\* C39: a run that is PENDING while its job is PAUSED is claimed all the
\* same: it leaves PENDING for RUNNING, whether or not the job is resumed;
\* and a step that creates a run by the scheduler is of an ACTIVE job.
C39_PausedJobsRunsAreClaimed ==
    /\ \A r \in 1..MaxRuns :
            (r \in RunIds /\ runs[r].status = PENDING /\ jobs[runs[r].job].status = PAUSED)
                ~> (r \in RunIds /\ runs[r].status = RUNNING)
    /\ [][\A r \in DOMAIN runs' \ RunIds : jobs[runs'[r].job].status = ACTIVE]_vars

C39_Witness ==
    \E r \in RunIds :
        /\ runs[r].status = PENDING
        /\ runs[r].jobStatus = ACTIVE
        /\ jobs[runs[r].job].status = PAUSED
        /\ \E e \in Execs : exec[e].pc = "update" /\ exec[e].run = r

====
